---------------------------- MODULE Spec2Model ----------------------------
(***************************************************************************)
(* The realtime hub of src/main.py (RealtimeHub, ws_chat, ws_room), the    *)
(* HTTP handlers that broadcast through it, and the moderation gate        *)
(* (get_role, require_moderator, flag/delete handlers), over the document  *)
(* store helpers of src/database.py.                                       *)
(*                                                                         *)
(* The program runs on one asyncio event loop: a task runs without         *)
(* interruption from one await to the next.  An action of this module is   *)
(* therefore the code a task runs between two suspension points (accept,   *)
(* send_text, receive_text).  `async with self.lock` never suspends here,  *)
(* because the lock is only ever held across code without an await.        *)
(*                                                                         *)
(* Python strings whose characters matter (header values, document ids,    *)
(* channel keys) are tuples of one-character strings.                      *)
(***************************************************************************)
EXTENDS Integers, Sequences, FiniteSets, TLC

\* ------------------------------------------------------------------ bounds
\* Number of websocket connections opened over a run.
NConns == 2
\* Number of HTTP requests that reach a broadcasting handler over a run.
NHttp == 1

Conns == 1..NConns
Https == (NConns + 1)..(NConns + NHttp)
Tasks == Conns \cup Https

\* ----------------------------------------------------------------- strings
\* Python None, of the same TLC type as a string and different from each.
None == <<"<None>">>
EmptyStr == <<>>
General == <<"G", "e", "n", "e", "r", "a", "l">>
Art == <<"A", "r", "t">>
Anon == <<"A", "n", "o", "n">>
Ann == <<"A", "n", "n">>
Lobby == <<"l", "o", "b", "b", "y">>
MediaUrl == <<"/", "m">>

\* Python's `x or d`: d when x is None or the empty string.
OrDefault(x, d) == IF x = None \/ x = EmptyStr THEN d ELSE x

\* ------------------------------------------------------------ document ids
HexChars == <<"0", "1", "2", "3", "4", "5", "6", "7", "8", "9", "a", "b", "c", "d", "e", "f">>
HexSet == {HexChars[i] : i \in 1..Len(HexChars)} \cup {"A", "B", "C", "D", "E", "F"}
ObjectIdLen == 24

\* str(ObjectId) of the n-th document the store creates.
Oid(n) == [i \in 1..ObjectIdLen |-> IF i = ObjectIdLen THEN HexChars[n + 1] ELSE "0"]

\* ObjectId(id_str) accepts exactly the strings of 24 hexadecimal digits.
IsObjectId(s) == s # None /\ Len(s) = ObjectIdLen /\ \A i \in 1..Len(s) : s[i] \in HexSet

\* A well-formed id that names no document.
MissingId == [i \in 1..ObjectIdLen |-> "f"]

VARIABLES
    chat_channels,   \* RealtimeHub.chat_channels: category -> set of connections
    room_channels,   \* RealtimeHub.room_channels: room id -> set of connections
    global_channels, \* RealtimeHub.global_channels: set of connections
    lock,            \* RealtimeHub.lock: the task holding it, or 0
    running,         \* the task the event loop is running, or 0 when all are suspended
    pc,              \* where each task is suspended
    peer,            \* per connection: "open" or "closed" (the client side of the socket)
    chan,            \* per connection: the registry and channel key of its endpoint
    bc,              \* per task: the send pass it is inside (snapshot, rest, dead)
    owed,            \* per connection: pings received minus pong sends attempted to it
    frame,           \* the frame the running loop body has received (`data`)
    connected,       \* connections that were added to a registry
    disconnected,    \* connections for which disconnect_chat/disconnect_room ran
    evicted,         \* connections discarded by a broadcast's dead-connection step
    ndisc,           \* per connection: number of disconnect_* invocations
    req,             \* per HTTP task: the request it serves
    resp,            \* per HTTP task: the response it returns
    docs,            \* the document store: a set of documents
    nextId,          \* number of the next document id the store generates
    ADMIN_TOKEN,     \* the configured secret
    mreq,            \* the last moderation request
    mresp            \* its response

hubvars == <<chat_channels, room_channels, global_channels, lock>>
taskvars == <<running, pc, peer, chan, bc, owed, frame>>
ghostvars == <<connected, disconnected, evicted, ndisc>>
httpvars == <<req, resp>>
storevars == <<docs, nextId>>
modvars == <<ADMIN_TOKEN, mreq, mresp>>
vars == <<hubvars, taskvars, ghostvars, httpvars, storevars, modvars>>

\* ---------------------------------------------------------------- messages
NoMsg == [type |-> "none"]
\* A presence message that says "join" whatever the event.
PresenceAlwaysJoin(event, n) == [type |-> "presence", event |-> "join", count |-> n]
Presence(event, n) == [type |-> "presence", event |-> event, count |-> n]
Typing(author) == [type |-> "typing", author |-> author]
Pong == [type |-> "pong"]
MessageOf(item) == [type |-> "message", item |-> item]
Pin(url) == [type |-> "pin", url |-> url]
RoomCreated(id) == [type |-> "room_created", id |-> id]

\* --------------------------------------------------------------- registries
NoChan == [reg |-> "none", key |-> EmptyStr]
IdleBc == [reg |-> "none", key |-> EmptyStr, msg |-> NoMsg, holder |-> 0, snap |-> {},
           todo |-> {}, tried |-> {}, dead |-> {}, ret |-> "none"]

Reg(r) == IF r = "chat" THEN chat_channels ELSE room_channels

\* chs.get(k, set())
GetOrEmpty(chs, k) == IF k \in DOMAIN chs THEN chs[k] ELSE {}

\* The subscriber set of registry r under key k (the global registry has no keys).
Members(r, k) == IF r = "global" THEN global_channels ELSE GetOrEmpty(Reg(r), k)

\* len(chs.get(k, set()))
CountIn(chs, k) == Cardinality(GetOrEmpty(chs, k))
count_chat(category) == CountIn(chat_channels, category)
count_room(room_id) == CountIn(room_channels, room_id)

\* A registration that creates the key and adds nothing to its set.
AddConnKeyOnly(chs, k, ws) == [x \in DOMAIN chs \cup {k} |-> GetOrEmpty(chs, x)]

\* A registration that adds the connection under every key of the registry.
AddConnEverywhere(chs, k, ws) == [x \in DOMAIN chs \cup {k} |-> GetOrEmpty(chs, x) \cup {ws}]

\* chs.setdefault(k, set()).add(ws)
AddConn(chs, k, ws) ==
    [x \in DOMAIN chs \cup {k} |-> IF x = k THEN GetOrEmpty(chs, k) \cup {ws} ELSE chs[x]]

\* A removal that removes nothing.
RemoveConnKeeps(chs, k, ws) == chs

\* A removal that pops the key also when the connection is not under it.
RemoveConnPopsKey(chs, k, ws) == [x \in DOMAIN chs \ {k} |-> chs[x]]

\* conns = chs.get(k); if conns and ws in conns: conns.remove(ws); if not conns: chs.pop(k)
RemoveConn(chs, k, ws) ==
    IF k \in DOMAIN chs /\ chs[k] # {} /\ ws \in chs[k]
    THEN IF chs[k] \ {ws} = {}
         THEN [x \in DOMAIN chs \ {k} |-> chs[x]]
         ELSE [chs EXCEPT ![k] = @ \ {ws}]
    ELSE chs

\* A dead-connection step that drops the whole key.
ReapDeadDropsKey(chs, k, dead) == [x \in DOMAIN chs \ {k} |-> chs[x]]

\* A dead-connection step that discards nothing.
ReapDeadKeeps(chs, k, dead) == chs

\* for ws in dead: chs.get(k, set()).discard(ws)
ReapDead(chs, k, dead) ==
    IF k \in DOMAIN chs THEN [chs EXCEPT ![k] = @ \ dead] ELSE chs

\* The registries after registry r is replaced by v.
SetReg(r, v) ==
    /\ chat_channels' = IF r = "chat" THEN v ELSE chat_channels
    /\ room_channels' = IF r = "room" THEN v ELSE room_channels
    /\ global_channels' = IF r = "global" THEN v ELSE global_channels


\* A locked block that ends with the lock still held by task t.
release_skipped(t) == t

\* The end of an `async with self.lock:` block of task t: the lock is free again.
release(t) == 0

\* ---------------------------------------------------------- broadcast engine
\* A snapshot of every channel of the registry instead of the one under k.
SnapshotAll(chs, k) == UNION {chs[x] : x \in DOMAIN chs}

\* conns = list(chs.get(k, set())): the snapshot a chat or room broadcast iterates.
Snapshot(chs, k) == GetOrEmpty(chs, k)

\* A global snapshot that takes the subscribers of every chat channel.
GlobalSnapshotOfChats == UNION {chat_channels[x] : x \in DOMAIN chat_channels}

\* conns = list(self.global_channels): the snapshot broadcast_global iterates.
GlobalSnapshot == global_channels

\* The call broadcast_chat/broadcast_room/broadcast_global(k, m) by task t up to its
\* first send_text: the pass over the snapshot `snap`.  With an empty snapshot the
\* loop and the dead-connection step are skipped and the broadcast is at its return.
\* The caller continues at `ret` once the broadcast has returned.  `holder` is the
\* task that holds self.lock when the snapshot is read: the locked sections of the
\* caller have ended by then.
CallBroadcast(t, r, k, m, snap, ret) ==
    /\ bc' = [bc EXCEPT ![t] = [reg |-> r, key |-> k, msg |-> m, holder |-> lock',
                                snap |-> snap, todo |-> snap, tried |-> {}, dead |-> {},
                                ret |-> ret]]
    /\ pc' = [pc EXCEPT ![t] = IF snap = {} THEN "bret" ELSE "send"]
    /\ running' = IF snap = {} THEN t ELSE 0

\* An iteration that leaves a connection whose send failed in the rest of the pass.
AfterSendRetry(b, ws, ok) ==
    [b EXCEPT !.todo = IF ok THEN @ \ {ws} ELSE @,
              !.tried = @ \cup {ws},
              !.dead = IF ok THEN @ ELSE @ \cup {ws}]

\* An iteration over the live subscriber set instead of the snapshot.
AfterSendLive(b, ws, ok) ==
    [b EXCEPT !.todo = (@ \cup Members(b.reg, b.key)) \ (b.tried \cup {ws}),
              !.tried = @ \cup {ws},
              !.dead = IF ok THEN @ ELSE @ \cup {ws}]

\* An iteration whose failed send ends the pass instead of being recorded only.
AfterSendAbort(b, ws, ok) ==
    [b EXCEPT !.todo = IF ok THEN @ \ {ws} ELSE {},
              !.tried = @ \cup {ws},
              !.dead = IF ok THEN @ ELSE @ \cup {ws}]

\* One iteration of `for ws in conns: try: await ws.send_text(...) except Exception:
\* dead.append(ws)` on the pass b, for connection ws, whose send succeeded or not.
AfterSend(b, ws, ok) ==
    [b EXCEPT !.todo = @ \ {ws},
              !.tried = @ \cup {ws},
              !.dead = IF ok THEN @ ELSE @ \cup {ws}]

\* `if dead: async with self.lock: for ws in dead: ...discard(ws)`: the registries
\* after the pass b.
Reap(b) ==
    IF b.dead = {}
    THEN UNCHANGED <<chat_channels, room_channels, global_channels>>
    ELSE IF b.reg = "global"
         THEN SetReg("global", global_channels \ b.dead)
         ELSE SetReg(b.reg, ReapDead(Reg(b.reg), b.key, b.dead))

\* broadcast_*: one send_text completes (it fails exactly when the peer has closed);
\* after the last one the dead connections are discarded under the lock and the
\* broadcast is at its return.
SendStep(t) ==
    /\ running = 0
    /\ pc[t] = "send"
    /\ \E ws \in bc[t].todo :
         LET nb == AfterSend(bc[t], ws, peer[ws] = "open")
         IN /\ bc' = [bc EXCEPT ![t] = nb]
            /\ IF nb.todo # {}
               THEN /\ UNCHANGED <<hubvars, running, pc, evicted>>
               ELSE /\ nb.dead # {} => lock = 0
                    /\ Reap(nb)
                    /\ lock' = IF nb.dead = {} THEN lock ELSE release(t)
                    /\ evicted' = evicted \cup nb.dead
                    /\ pc' = [pc EXCEPT ![t] = "bret"]
                    /\ running' = t
    /\ UNCHANGED <<peer, chan, owed, connected, disconnected, ndisc, httpvars, storevars, modvars, frame>>

\* broadcast_* returns to its caller, which runs on: a receive loop to receive_text,
\* a disconnect to the end of the websocket handler, an HTTP handler to its return.
BroadcastReturn(t) ==
    /\ running = t
    /\ pc[t] = "bret"
    /\ pc' = [pc EXCEPT ![t] = bc[t].ret]
    /\ bc' = [bc EXCEPT ![t] = IdleBc]
    /\ running' = IF bc[t].ret = "respond" THEN t ELSE 0
    /\ chan' = IF bc[t].ret = "closed" THEN [chan EXCEPT ![t] = NoChan] ELSE chan
    /\ UNCHANGED <<hubvars, peer, owed, ghostvars, httpvars, storevars, modvars, frame>>

\* ------------------------------------------------------ connection lifecycle
\* The `category` query parameter of /ws/chat and the `room_id` path parameter of
\* /ws/rooms/{room_id} that clients use.
CategoryParams == {None, EmptyStr, Art}
RoomIdParams == {Oid(1), Lobby}

\* connect_chat/connect_room once accept() has returned: the locked add, then the
\* join presence broadcast with the count read after the add.
Connect(c, r, k) ==
    /\ running = 0
    /\ pc[c] = "accept"
    /\ peer[c] = "open"
    /\ chan' = [chan EXCEPT ![c] = [reg |-> r, key |-> k]]
    /\ lock = 0
    /\ lock' = release(c)
    /\ LET after == AddConn(Reg(r), k, c)
       IN /\ SetReg(r, after)
          /\ CallBroadcast(c, r, k, Presence("join", CountIn(after, k)),
                           Snapshot(after, k), "recv")
    /\ connected' = connected \cup {c}
    /\ UNCHANGED <<peer, owed, disconnected, evicted, ndisc, httpvars, storevars, modvars, frame>>

connect_chat(c, category) == Connect(c, "chat", category)
connect_room(c, room_id) == Connect(c, "room", room_id)

\* ws_chat from the accept() of hub.connect_chat, at which the handler of a new
\* connection is suspended, to the first send_text of the join broadcast.
ws_chat(c) == \E category \in CategoryParams : connect_chat(c, OrDefault(category, General))

\* ws_room likewise.
ws_room(c) == \E room_id \in RoomIdParams : connect_room(c, room_id)

\* The client goes away before the handshake completes: accept() raises, and the
\* exception leaves the handler, which had not registered the connection.
AcceptFails(c) ==
    /\ running = 0
    /\ pc[c] = "accept"
    /\ peer' = [peer EXCEPT ![c] = "closed"]
    /\ pc' = [pc EXCEPT ![c] = "failed"]
    /\ UNCHANGED <<hubvars, running, chan, bc, owed, ghostvars, httpvars, storevars, modvars, frame>>

\* disconnect_chat/disconnect_room: the locked removal with pruning, then the leave
\* presence broadcast with the count read after the removal.
Disconnect(c) ==
    /\ lock = 0
    /\ lock' = release(c)
    /\ LET after == RemoveConn(Reg(chan[c].reg), chan[c].key, c)
       IN /\ SetReg(chan[c].reg, after)
          /\ CallBroadcast(c, chan[c].reg, chan[c].key,
                           Presence("leave", CountIn(after, chan[c].key)),
                           Snapshot(after, chan[c].key), "closed")
    /\ disconnected' = disconnected \cup {c}
    /\ ndisc' = [ndisc EXCEPT ![c] = @ + 1]

disconnect_chat(c) == chan[c].reg = "chat" /\ Disconnect(c)
disconnect_room(c) == chan[c].reg = "room" /\ Disconnect(c)

\* The client closes its side of the socket.
PeerClose(c) ==
    /\ running = 0
    /\ pc[c] \in {"send", "recv", "pong"}
    /\ peer[c] = "open"
    /\ peer' = [peer EXCEPT ![c] = "closed"]
    /\ UNCHANGED <<hubvars, running, pc, chan, bc, owed, ghostvars, httpvars, storevars, modvars, frame>>

\* ------------------------------------------------------------- receive loop
\* Inbound text frames: json.loads fails ("invalid"), gives a non-dict ("list"), or
\* gives a dict with the "type" and "author" entries shown (None: no such entry).
Frame(json, type, author) == [json |-> json, type |-> type, author |-> author]
Frames ==
    { Frame("invalid", "none", None), Frame("list", "none", None),
      Frame("object", "none", None), Frame("object", "other", Ann),
      Frame("object", "typing", None), Frame("object", "typing", EmptyStr),
      Frame("object", "typing", Ann), Frame("object", "ping", None) }

\* A dispatch that takes every object frame that is no ping for a typing frame.
FrameKindLoose(f) ==
    IF f.json # "object" THEN "ignore"
    ELSE IF f.type = "ping" THEN "ping"
    ELSE "typing"

\* What the loop body does with frame f: "typing", "ping" or "ignore".
FrameKind(f) ==
    IF f.json = "invalid" THEN "ignore"
    ELSE IF f.json # "object" THEN "ignore"
    ELSE IF f.type = "typing" THEN "typing"
    ELSE IF f.type = "ping" THEN "ping"
    ELSE "ignore"

NoFrame == Frame("none", "none", None)

\* receive_text returns a frame (one the client sent before it closed, if it has
\* closed); the loop body runs next, without suspending in between.
RecvFrame(c) ==
    /\ running = 0
    /\ pc[c] = "recv"
    /\ \E f \in Frames : frame' = f
    /\ pc' = [pc EXCEPT ![c] = "body"]
    /\ running' = c
    /\ UNCHANGED <<hubvars, peer, chan, bc, owed, ghostvars, httpvars, storevars, modvars>>

\* A typing broadcast that leaves the sender out.
TypingToOthers(c) == GetOrEmpty(Reg(chan[c].reg), chan[c].key) \ {c}

\* The snapshot of hub.broadcast_chat(cat, ...)/hub.broadcast_room(room_id, ...) for a
\* typing frame received on connection c.
TypingRecipients(c) == Snapshot(Reg(chan[c].reg), chan[c].key)

\* The loop body on the received frame, to its next suspension point: the first
\* send_text of the typing broadcast, the pong send_text, or receive_text again.
LoopBody(c) ==
    /\ running = c
    /\ pc[c] = "body"
    /\ frame' = NoFrame
    /\ UNCHANGED hubvars
    /\ CASE FrameKind(frame) = "typing" ->
                /\ CallBroadcast(c, chan[c].reg, chan[c].key,
                                 Typing(OrDefault(frame.author, Anon)),
                                 TypingRecipients(c), "recv")
                /\ UNCHANGED owed
           [] FrameKind(frame) = "ping" ->
                /\ pc' = [pc EXCEPT ![c] = "pong"]
                /\ owed' = [owed EXCEPT ![c] = @ + 1]
                /\ running' = 0
                /\ UNCHANGED bc
           [] OTHER ->
                /\ pc' = [pc EXCEPT ![c] = "recv"]
                /\ running' = 0
                /\ UNCHANGED <<bc, owed>>
    /\ UNCHANGED <<peer, chan, ghostvars, httpvars, storevars, modvars>>

\* A pong that goes to the subscribers of the sender's channel.
PongToChannel(c) == Members(chan[c].reg, chan[c].key)

\* The connections `await websocket.send_text(json.dumps({"type": "pong"}))` sends to.
PongRecipients(c) == {c}

\* `except WebSocketDisconnect:` of the receive loop.
Caught(exc) == exc = "WebSocketDisconnect"

\* What a failed send_text outside a broadcast raises, depending on the server
\* library: WebSocketDisconnect, or another exception.
SendErrors == {"WebSocketDisconnect", "Exception"}

\* The pong send_text completes and the loop goes back to receive_text.
PongSent(c) ==
    /\ running = 0
    /\ pc[c] = "pong"
    /\ peer[c] = "open"
    /\ owed' = [d \in Conns |-> IF d \in PongRecipients(c) THEN owed[d] - 1 ELSE owed[d]]
    /\ pc' = [pc EXCEPT ![c] = "recv"]
    /\ UNCHANGED <<hubvars, running, peer, chan, bc, ghostvars, httpvars, storevars, modvars, frame>>

\* The pong send_text raises: WebSocketDisconnect is caught and disconnect_* runs;
\* any other exception leaves the handler.
PongFails(c) ==
    /\ running = 0
    /\ pc[c] = "pong"
    /\ peer[c] = "closed"
    /\ owed' = [d \in Conns |-> IF d \in PongRecipients(c) THEN owed[d] - 1 ELSE owed[d]]
    /\ \E exc \in SendErrors :
         IF Caught(exc)
         THEN Disconnect(c) /\ UNCHANGED <<connected, evicted>>
         ELSE /\ pc' = [pc EXCEPT ![c] = "crashed"]
              /\ UNCHANGED <<hubvars, running, bc, ghostvars>>
    /\ UNCHANGED <<peer, chan, httpvars, storevars, modvars, frame>>

\* receive_text raises WebSocketDisconnect once the client has closed: the except
\* clause runs disconnect_chat/disconnect_room.
RecvDisconnect(c) ==
    /\ running = 0
    /\ pc[c] = "recv"
    /\ peer[c] = "closed"
    /\ Disconnect(c)
    /\ UNCHANGED <<peer, chan, owed, connected, evicted, httpvars, storevars, modvars, frame>>

\* ----------------------------------------------------------- document store
Doc(coll, id, room_id, category, flagged, pinned) ==
    [coll |-> coll, _id |-> id, room_id |-> room_id, category |-> category,
     flagged |-> flagged, pinned |-> pinned]

\* The messages of the exceptions the helpers raise: `db is None` (or the server is
\* not answering), and the ValueError of _to_object_id.
DbUnavailable == "Database not available"
InvalidId == "Invalid document id"
Raised == {DbUnavailable, InvalidId}

\* _to_object_id raises ValueError for a string that is no ObjectId.
to_object_id_raises(id_str) == ~IsObjectId(id_str)

\* find_one / the documents update_one and delete_one match: {"_id": oid}.
Found(coll, doc_id) == {d \in docs : d.coll = coll /\ d._id = doc_id}

\* The check and the conversion every by-id helper starts with; db_ok tells whether
\* the database is configured and answers this call.
ByIdRaises(db_ok, doc_id) ==
    IF ~db_ok THEN DbUnavailable
    ELSE IF to_object_id_raises(doc_id) THEN InvalidId
    ELSE "no"

\* get_document_by_id: the message of the exception it raises, "None", or "found".
get_document_by_id(db_ok, coll, doc_id) ==
    IF ByIdRaises(db_ok, doc_id) # "no" THEN ByIdRaises(db_ok, doc_id)
    ELSE IF Found(coll, doc_id) = {} THEN "None" ELSE "found"

\* An insert that returns an id and stores nothing.
create_document_lost(doc) == docs

\* create_document: the id it returns, and the store after it.
InsertedId == Oid(nextId)
create_document(doc) == docs \cup {[doc EXCEPT !._id = InsertedId]}

\* update_document_push: the message of the exception it raises, or whether a
\* document was modified; and the store after it.
update_document_push(db_ok, coll, doc_id) ==
    IF ByIdRaises(db_ok, doc_id) # "no" THEN ByIdRaises(db_ok, doc_id)
    ELSE IF Found(coll, doc_id) = {} THEN "False" ELSE "True"
AfterPush(coll, doc_id, value) ==
    {IF d.coll = coll /\ d._id = doc_id THEN [d EXCEPT !.pinned = Append(@, value)] ELSE d
       : d \in docs}

\* update_document_set(coll, id, {"flagged": True}) and delete_document likewise.
update_document_set(db_ok, coll, doc_id) ==
    IF ByIdRaises(db_ok, doc_id) # "no" THEN ByIdRaises(db_ok, doc_id)
    ELSE IF Found(coll, doc_id) = {} THEN "False" ELSE "True"
AfterSetFlagged(coll, doc_id) ==
    {IF d.coll = coll /\ d._id = doc_id THEN [d EXCEPT !.flagged = TRUE] ELSE d : d \in docs}
delete_document(db_ok, coll, doc_id) ==
    IF ByIdRaises(db_ok, doc_id) # "no" THEN ByIdRaises(db_ok, doc_id)
    ELSE IF Found(coll, doc_id) = {} THEN "False" ELSE "True"
AfterDelete(coll, doc_id) == docs \ Found(coll, doc_id)

\* ------------------------------------------------- HTTP handlers that broadcast
Req(op, category, room_id, body_room_id) ==
    [op |-> op, category |-> category, room_id |-> room_id, body_room_id |-> body_room_id]
NoReq == Req("none", None, None, None)
\* A response: the status, the detail of an error, the id in the body, and whether
\* the handler wrote to the store.
Resp(status, detail, id, stored) ==
    [status |-> status, detail |-> detail, id |-> id, stored |-> stored]
NoResp == Resp(0, "", None, FALSE)

\* Request inputs: the category of a chat payload, the room_id of the path, and the
\* room_id a room message payload declares.
PayloadCategories == {None, Art}
PathRoomIds == {Oid(1), MissingId, Lobby}
BodyRoomIds == {Lobby}

\* The handler of HTTP task h raises HTTPException(status, detail) before any
\* broadcast.
Fail(h, status, detail) ==
    /\ resp' = [resp EXCEPT ![h] = Resp(status, detail, None, FALSE)]
    /\ pc' = [pc EXCEPT ![h] = "respond"]
    /\ running' = h
    /\ UNCHANGED <<bc, docs, nextId>>

\* POST /chat
create_chat(h) ==
    /\ running = 0
    /\ pc[h] = "idle"
    /\ UNCHANGED hubvars
    /\ \E category \in PayloadCategories, db_ok \in BOOLEAN :
         /\ req' = [req EXCEPT ![h] = Req("create_chat", category, None, None)]
         /\ IF ~db_ok
            THEN Fail(h, 500, DbUnavailable)
            ELSE /\ docs' = create_document(Doc("chatmessage", None, None, category, FALSE, <<>>))
                 /\ nextId' = nextId + 1
                 /\ resp' = [resp EXCEPT ![h] = Resp(201, "", InsertedId, TRUE)]
                 /\ CallBroadcast(h, "chat", OrDefault(category, General),
                                  MessageOf([_id |-> InsertedId, category |-> category]),
                                  Snapshot(chat_channels, OrDefault(category, General)),
                                  "respond")
    /\ UNCHANGED <<peer, chan, owed, ghostvars, modvars, frame>>

\* POST /rooms
create_room(h) ==
    /\ running = 0
    /\ pc[h] = "idle"
    /\ UNCHANGED hubvars
    /\ \E db_ok \in BOOLEAN :
         /\ req' = [req EXCEPT ![h] = Req("create_room", None, None, None)]
         /\ IF ~db_ok
            THEN Fail(h, 500, DbUnavailable)
            ELSE /\ docs' = create_document(Doc("room", None, None, None, FALSE, <<>>))
                 /\ nextId' = nextId + 1
                 /\ resp' = [resp EXCEPT ![h] = Resp(201, "", InsertedId, TRUE)]
                 /\ CallBroadcast(h, "global", EmptyStr, RoomCreated(InsertedId),
                                  GlobalSnapshot, "respond")
    /\ UNCHANGED <<peer, chan, owed, ghostvars, modvars, frame>>

\* A message document that keeps the room_id its payload declared.
KeepBodyRoomId(payload, room_id) == payload

\* data = payload.model_dump(); data["room_id"] = room_id
WithPathRoomId(payload, room_id) == [payload EXCEPT !.room_id = room_id]

\* POST /rooms/{room_id}/messages
post_room_message(h) ==
    /\ running = 0
    /\ pc[h] = "idle"
    /\ UNCHANGED hubvars
    /\ \E room_id \in PathRoomIds, body_room_id \in BodyRoomIds, db_ok \in BOOLEAN,
          insert_ok \in BOOLEAN :
         /\ req' = [req EXCEPT ![h] = Req("post_room_message", None, room_id, body_room_id)]
         /\ CASE get_document_by_id(db_ok, "room", room_id) \in Raised ->
                   Fail(h, 500, get_document_by_id(db_ok, "room", room_id))
              [] get_document_by_id(db_ok, "room", room_id) = "None" ->
                   Fail(h, 404, "Room not found")
              [] OTHER ->
                   LET payload == [room_id |-> body_room_id]
                       data == WithPathRoomId(payload, room_id)
                   IN IF ~insert_ok
                      THEN Fail(h, 500, DbUnavailable)
                      ELSE /\ docs' = create_document(
                                          Doc("roommessage", None, data.room_id, None, FALSE, <<>>))
                           /\ nextId' = nextId + 1
                           /\ resp' = [resp EXCEPT ![h] = Resp(201, "", InsertedId, TRUE)]
                           /\ CallBroadcast(h, "room", room_id,
                                            MessageOf([_id |-> InsertedId,
                                                       room_id |-> data.room_id]),
                                            Snapshot(room_channels, room_id), "respond")
    /\ UNCHANGED <<peer, chan, owed, ghostvars, modvars, frame>>

\* POST /rooms/{room_id}/pin
pin_media(h) ==
    /\ running = 0
    /\ pc[h] = "idle"
    /\ UNCHANGED hubvars
    /\ \E room_id \in PathRoomIds, db_ok \in BOOLEAN :
         /\ req' = [req EXCEPT ![h] = Req("pin_media", None, room_id, None)]
         /\ CASE update_document_push(db_ok, "room", room_id) \in Raised ->
                   Fail(h, 500, update_document_push(db_ok, "room", room_id))
              [] update_document_push(db_ok, "room", room_id) = "False" ->
                   Fail(h, 404, "Room not found or not updated")
              [] OTHER ->
                   /\ docs' = AfterPush("room", room_id, MediaUrl)
                   /\ resp' = [resp EXCEPT ![h] = Resp(200, "", None, TRUE)]
                   /\ CallBroadcast(h, "room", room_id, Pin(MediaUrl),
                                    Snapshot(room_channels, room_id), "respond")
                   /\ UNCHANGED nextId
    /\ UNCHANGED <<peer, chan, owed, ghostvars, modvars, frame>>

\* The handler returns and the response goes out; the task serves no other request.
HttpRespond(h) ==
    /\ running = h
    /\ pc[h] = "respond"
    /\ pc' = [pc EXCEPT ![h] = "done"]
    /\ req' = [req EXCEPT ![h] = NoReq]
    /\ resp' = [resp EXCEPT ![h] = NoResp]
    /\ running' = 0
    /\ UNCHANGED <<hubvars, peer, chan, bc, owed, ghostvars, storevars, modvars, frame>>

\* ----------------------------------------------------------- moderation gate
UpperChars == <<"A", "B", "C", "D", "E", "F", "G", "H", "I", "J", "K", "L", "M",
                "N", "O", "P", "Q", "R", "S", "T", "U", "V", "W", "X", "Y", "Z">>
LowerChars == <<"a", "b", "c", "d", "e", "f", "g", "h", "i", "j", "k", "l", "m",
                "n", "o", "p", "q", "r", "s", "t", "u", "v", "w", "x", "y", "z">>
Whitespace == {" ", "\t", "\n"}

LowerChar(ch) ==
    IF \E i \in 1..Len(UpperChars) : UpperChars[i] = ch
    THEN LowerChars[CHOOSE i \in 1..Len(UpperChars) : UpperChars[i] = ch]
    ELSE ch

\* str.lower()
Lower(s) == [i \in 1..Len(s) |-> LowerChar(s[i])]

\* str.strip(): drop the whitespace at both ends.
Strip(s) ==
    LET keep == {i \in 1..Len(s) : s[i] \notin Whitespace}
    IN IF keep = {} THEN <<>>
       ELSE SubSeq(s, CHOOSE i \in keep : \A j \in keep : i <= j,
                      CHOOSE i \in keep : \A j \in keep : i >= j)

Viewer == <<"v", "i", "e", "w", "e", "r">>
Member == <<"m", "e", "m", "b", "e", "r">>
Moderator == <<"m", "o", "d", "e", "r", "a", "t", "o", "r">>
Admin == <<"a", "d", "m", "i", "n">>

\* A get_role that believes the declared role without looking at the token.
get_role_trusting(x_role, x_admin_token) ==
    LET role == Strip(Lower(OrDefault(x_role, Viewer)))
    IN IF role \in {Viewer, Member, Moderator, Admin} THEN role ELSE Viewer

\* get_role(x_role, x_admin_token)
get_role(x_role, x_admin_token) ==
    LET role == Strip(Lower(OrDefault(x_role, Viewer)))
    IN IF role \in {Moderator, Admin}
       THEN IF ADMIN_TOKEN = EmptyStr \/ x_admin_token # ADMIN_TOKEN THEN Viewer ELSE role
       ELSE IF role \in {Viewer, Member} THEN role
       ELSE Viewer

\* A require_moderator that lets every role through.
AllowAnyRole(role) == TRUE

\* require_moderator raises HTTPException(403) unless the role is moderator or admin.
require_moderator(role) == role \in {Moderator, Admin}

\* Header values and message ids of moderation requests.
Secret == <<"s", "3">>
RoleHeaders ==
    { None, EmptyStr, Viewer, <<"M", "e", "m", "b", "e", "r">>, Moderator,
      <<"M", "O", "D", "E", "R", "A", "T", "O", "R">>, Admin,
      <<" ", "A", "d", "m", "i", "n", " ">>, <<"r", "o", "o", "t">>,
      <<"a", "d", " ", "m", "i", "n">> }
TokenHeaders == {None, EmptyStr, Secret, <<"S", "3">>, <<"s", "3", " ">>}
MessageIds == {Oid(2), Oid(3), MissingId, Lobby}

ModReq(op, x_role, x_admin_token, message_id) ==
    [op |-> op, x_role |-> x_role, x_admin_token |-> x_admin_token, message_id |-> message_id]
\* A moderation response: the status, the role get_role resolved, and whether the
\* storage update/delete was invoked.
ModResp(status, role, invoked) == [status |-> status, role |-> role, invoked |-> invoked]

\* An endpoint that asks storage first and answers 404 for a message that is not
\* there before it looks at the role.
ModerationLookupFirst(op, coll, x_role, x_admin_token, message_id, result, after) ==
    LET role == get_role(x_role, x_admin_token)
    IN /\ mreq.op = "none"
       /\ mreq' = ModReq(op, x_role, x_admin_token, message_id)
       /\ CASE result \in Raised -> mresp' = ModResp(500, role, TRUE) /\ UNCHANGED docs
            [] result = "False" -> mresp' = ModResp(404, role, TRUE) /\ UNCHANGED docs
            [] ~require_moderator(role) -> mresp' = ModResp(403, role, FALSE) /\ UNCHANGED docs
            [] OTHER -> mresp' = ModResp(200, role, TRUE) /\ docs' = after
       /\ UNCHANGED <<hubvars, taskvars, ghostvars, httpvars, nextId, ADMIN_TOKEN>>

\* A flag or delete endpoint: the role dependency, then the handler body on
\* collection coll, where storage answers `result` and is left as `after`.
Moderation(op, coll, x_role, x_admin_token, message_id, result, after) ==
    LET role == get_role(x_role, x_admin_token)
    IN /\ mreq.op = "none"
       /\ mreq' = ModReq(op, x_role, x_admin_token, message_id)
       /\ IF ~require_moderator(role)
          THEN /\ mresp' = ModResp(403, role, FALSE)
               /\ UNCHANGED docs
          ELSE CASE result \in Raised -> mresp' = ModResp(500, role, TRUE) /\ UNCHANGED docs
                 [] result = "False" -> mresp' = ModResp(404, role, TRUE) /\ UNCHANGED docs
                 [] OTHER -> mresp' = ModResp(200, role, TRUE) /\ docs' = after
       /\ UNCHANGED <<hubvars, taskvars, ghostvars, httpvars, nextId, ADMIN_TOKEN>>

\* POST /chat/{message_id}/flag
flag_chat_message ==
    \E x_role \in RoleHeaders, x_admin_token \in TokenHeaders, message_id \in MessageIds,
       db_ok \in BOOLEAN :
        Moderation("flag_chat_message", "chatmessage", x_role, x_admin_token, message_id,
                   update_document_set(db_ok, "chatmessage", message_id),
                   AfterSetFlagged("chatmessage", message_id))

\* DELETE /chat/{message_id}
delete_chat_message ==
    \E x_role \in RoleHeaders, x_admin_token \in TokenHeaders, message_id \in MessageIds,
       db_ok \in BOOLEAN :
        Moderation("delete_chat_message", "chatmessage", x_role, x_admin_token, message_id,
                   delete_document(db_ok, "chatmessage", message_id),
                   AfterDelete("chatmessage", message_id))

\* POST /rooms/{room_id}/messages/{message_id}/flag
flag_room_message ==
    \E x_role \in RoleHeaders, x_admin_token \in TokenHeaders, message_id \in MessageIds,
       db_ok \in BOOLEAN :
        Moderation("flag_room_message", "roommessage", x_role, x_admin_token, message_id,
                   update_document_set(db_ok, "roommessage", message_id),
                   AfterSetFlagged("roommessage", message_id))

\* DELETE /rooms/{room_id}/messages/{message_id}
delete_room_message ==
    \E x_role \in RoleHeaders, x_admin_token \in TokenHeaders, message_id \in MessageIds,
       db_ok \in BOOLEAN :
        Moderation("delete_room_message", "roommessage", x_role, x_admin_token, message_id,
                   delete_document(db_ok, "roommessage", message_id),
                   AfterDelete("roommessage", message_id))

\* ------------------------------------------------------------ specifications
\* The hub after `hub = RealtimeHub()`, with no connection opened yet.
InitHub ==
    /\ chat_channels = <<>>
    /\ room_channels = <<>>
    /\ global_channels = {}
    /\ lock = 0
    /\ running = 0
    /\ pc = [t \in Tasks |-> IF t \in Conns THEN "accept" ELSE "idle"]
    /\ peer = [c \in Conns |-> "open"]
    /\ chan = [c \in Conns |-> NoChan]
    /\ bc = [t \in Tasks |-> IdleBc]
    /\ owed = [c \in Conns |-> 0]
    /\ frame = NoFrame
    /\ connected = {}
    /\ disconnected = {}
    /\ evicted = {}
    /\ ndisc = [c \in Conns |-> 0]
    /\ req = [h \in Https |-> NoReq]
    /\ resp = [h \in Https |-> NoResp]

NoModReq == ModReq("none", None, None, None)
NoModResp == ModResp(0, Viewer, FALSE)

\* The server starts with one room in the store and ADMIN_TOKEN unset.
Init ==
    /\ InitHub
    /\ docs = {Doc("room", Oid(1), None, None, FALSE, <<>>)}
    /\ nextId = 2
    /\ ADMIN_TOKEN = EmptyStr
    /\ mreq = NoModReq
    /\ mresp = NoModResp

\* The hub with its websocket endpoints.
Next ==
    \E c \in Conns :
        \/ ws_chat(c)
        \/ ws_room(c)
        \/ AcceptFails(c)
        \/ PeerClose(c)
        \/ RecvFrame(c)
        \/ LoopBody(c)
        \/ PongSent(c)
        \/ PongFails(c)
        \/ RecvDisconnect(c)
        \/ SendStep(c)
        \/ BroadcastReturn(c)

Spec == Init /\ [][Next]_vars

\* The event loop resumes every handler whose awaited operation has completed, and
\* every network operation of a handler completes or fails: a send_text in a
\* broadcast, a pong send_text, and the receive_text of a closed connection, which
\* raises WebSocketDisconnect once the frames sent before the close are consumed.
\* What clients do (connect, send frames, close) is under no fairness.
HandlerFairness ==
    \A c \in Conns :
        /\ SF_vars(SendStep(c))
        /\ WF_vars(BroadcastReturn(c))
        /\ WF_vars(LoopBody(c))
        /\ SF_vars(PongSent(c))
        /\ SF_vars(PongFails(c))
        /\ SF_vars(RecvDisconnect(c))

\* The hub with its websocket endpoints under a fair event loop.
SpecFair == Init /\ [][Next]_vars /\ HandlerFairness

\* The hub with its websocket endpoints and the HTTP handlers that broadcast.
NextHttp ==
    \/ Next
    \/ \E h \in Https :
         \/ create_chat(h)
         \/ create_room(h)
         \/ post_room_message(h)
         \/ pin_media(h)
         \/ SendStep(h)
         \/ BroadcastReturn(h)
         \/ HttpRespond(h)

SpecHttp == Init /\ [][NextHttp]_vars

\* The moderation endpoints over a store that holds a room, a chat message and a
\* room message, with ADMIN_TOKEN set or not.
InitMod ==
    /\ InitHub
    /\ docs = { Doc("room", Oid(1), None, None, FALSE, <<>>),
                Doc("chatmessage", Oid(2), None, None, FALSE, <<>>),
                Doc("roommessage", Oid(3), Oid(1), None, FALSE, <<>>) }
    /\ nextId = 4
    /\ ADMIN_TOKEN \in {EmptyStr, Secret}
    /\ mreq = NoModReq
    /\ mresp = NoModResp

\* The client has read the response; the next moderation request may come.
ModerationDone ==
    /\ mreq.op # "none"
    /\ mreq' = NoModReq
    /\ mresp' = NoModResp
    /\ UNCHANGED <<hubvars, taskvars, ghostvars, httpvars, storevars, ADMIN_TOKEN>>

NextMod ==
    \/ flag_chat_message
    \/ delete_chat_message
    \/ flag_room_message
    \/ delete_room_message
    \/ ModerationDone

SpecMod == InitMod /\ [][NextMod]_vars

\* ------------------------------------------------------------------ properties
\* The channel keys the endpoints and requests of this model use.
ChannelKeys == {OrDefault(x, General) : x \in CategoryParams} \cup PathRoomIds

\* C1: in every state, count_chat(k) and count_room(k) equal the number of
\* connections that were connected to channel k and have been neither disconnected
\* nor evicted by a failed send.
C1_CountIsSubscribedNotEvicted ==
    \A k \in ChannelKeys :
        /\ count_chat(k) = Cardinality({c \in connected \ (disconnected \cup evicted) :
                                          chan[c] = [reg |-> "chat", key |-> k]})
        /\ count_room(k) = Cardinality({c \in connected \ (disconnected \cup evicted) :
                                          chan[c] = [reg |-> "room", key |-> k]})

\* Two connections joined a chat channel, one was evicted and is not disconnected
\* yet, and the count of the channel is 1.
C1_Witness ==
    \E c \in evicted \ disconnected :
        /\ chan[c].reg = "chat"
        /\ count_chat(chan[c].key) = 1
        /\ \E d \in connected \ (evicted \cup disconnected) : chan[d] = chan[c]

\* C2: when a send fails during a broadcast, the broadcast at its return has
\* attempted every connection of its snapshot and the failed connections are absent
\* from the channel's subscriber set; and the snapshot of a broadcast that starts
\* holds no connection evicted before.
C2_FailedSendIsolated ==
    [][\A t \in Tasks :
         /\ (pc'[t] = "bret" /\ bc'[t].dead # {})
              => /\ bc'[t].tried = bc'[t].snap
                 /\ bc'[t].dead \cap
                      (IF bc'[t].reg = "global" THEN global_channels'
                       ELSE GetOrEmpty(IF bc'[t].reg = "chat" THEN chat_channels'
                                       ELSE room_channels', bc'[t].key)) = {}
         /\ (bc[t] = IdleBc /\ bc'[t] # IdleBc)
              => /\ bc'[t].snap \cap evicted = {}
                 /\ bc'[t].todo = bc'[t].snap]_vars

\* A broadcast is at its return after a send to one connection of its snapshot
\* failed and a send to another succeeded.
C2_Witness ==
    \E t \in Tasks :
        /\ pc[t] = "bret"
        /\ bc[t].dead # {}
        /\ bc[t].tried \ bc[t].dead # {}
        /\ bc[t].dead \subseteq evicted

\* C3: no channel key of the chat registry or of the room registry maps to an empty
\* subscriber set.
C3_NoEmptySubscriberSet ==
    /\ \A k \in DOMAIN chat_channels : chat_channels[k] # {}
    /\ \A k \in DOMAIN room_channels : room_channels[k] # {}

\* C4: when the only connection that ever subscribed has connected and then run
\* disconnect_chat/disconnect_room, the channel key is absent from the registry and
\* the leave presence message carries count 0.
C4_SoleSubscriberLeavesNoKey ==
    \A c \in Conns :
        (connected = {c} /\ pc[c] = "bret" /\ bc[c].msg.type = "presence"
           /\ bc[c].msg.event = "leave")
        => /\ bc[c].key \notin DOMAIN Reg(bc[c].reg)
           /\ bc[c].msg.count = 0

\* C5: disconnect_chat/disconnect_room runs at most once for a connection, and it
\* has run once for every accepted connection whose receive loop has terminated.
C5_DisconnectExactlyOnce ==
    \A c \in connected :
        /\ ndisc[c] <= 1
        /\ (pc[c] \in {"closed", "crashed"} \/ bc[c].ret = "closed") => ndisc[c] = 1

\* C6: the pong sends attempted to a connection are the pings received on it, one
\* for one: a connection is owed one pong exactly while its handler stands before
\* the pong send, and no pong send goes to another connection.
C6_OnePongToSenderOnly ==
    \A c \in Conns : owed[c] = IF pc[c] = "pong" THEN 1 ELSE 0

\* A ping was received on an open connection that shares its channel with another
\* subscriber, and its pong is about to be sent.
C6_Witness ==
    \E c \in Conns :
        /\ pc[c] = "pong"
        /\ peer[c] = "open"
        /\ owed[c] = 1
        /\ {c} \subseteq Members(chan[c].reg, chan[c].key)
        /\ \E d \in Conns \ {c} : d \in Members(chan[c].reg, chan[c].key)

\* C7: a broadcast by an HTTP handler or by a typing frame to a channel without
\* subscribers attempts no send and is at its return with every registry unchanged;
\* the return of a broadcast with an empty snapshot changes no registry and gives
\* control back to its caller; the HTTP handler answers with success.
C7_EmptyChannelBroadcastIsNoOp ==
    [][\A t \in Tasks :
         /\ (bc[t] = IdleBc /\ bc'[t] # IdleBc /\ bc'[t].msg.type # "presence"
               /\ Members(bc'[t].reg, bc'[t].key) = {})
              => /\ pc'[t] = "bret"
                 /\ bc'[t].tried = {}
                 /\ bc'[t].todo = {}
                 /\ hubvars' = hubvars
                 /\ t \in Https => resp'[t].status \in {200, 201}
         /\ (pc[t] = "bret" /\ bc[t].snap = {} /\ pc'[t] # "bret")
              => /\ pc'[t] = bc[t].ret
                 /\ hubvars' = hubvars]_vars

\* An HTTP handler's broadcast to a room key the registry has never held is at its
\* return, while a chat channel has subscribers.
C7_Witness ==
    \E h \in Https :
        /\ pc[h] = "bret"
        /\ bc[h].reg = "room"
        /\ bc[h].snap = {}
        /\ bc[h].key \notin DOMAIN room_channels
        /\ \E k \in DOMAIN chat_channels : chat_channels[k] # {}

\* C8: post_room_message and pin_media for a room id that identifies no room, with
\* the database answering, respond 404 without writing to the store and without
\* entering a broadcast.
C8_MissingRoomIsNotFound ==
    \A h \in Https :
        (req[h].op \in {"post_room_message", "pin_media"}
           /\ Found("room", req[h].room_id) = {}
           /\ resp[h].detail # DbUnavailable)
        => /\ pc[h] = "respond"
           /\ resp[h].status = 404
           /\ ~resp[h].stored

\* The declared role of a request names moderator or admin, and the token is not a
\* non-empty configured secret.
ClaimsElevated(r) == r.x_role # None /\ Strip(Lower(r.x_role)) \in {Moderator, Admin}
TokenValid(r) == ADMIN_TOKEN # EmptyStr /\ r.x_admin_token = ADMIN_TOKEN

\* C9: a flag or delete request that claims moderator or admin without a token
\* equal to a non-empty configured secret is answered 403, the storage update or
\* delete is not invoked and the store is unchanged.
C9_ElevatedClaimWithoutTokenRejected ==
    [][(mreq.op = "none" /\ mreq'.op # "none" /\ ClaimsElevated(mreq') /\ ~TokenValid(mreq'))
         => /\ mresp'.status = 403
            /\ ~mresp'.invoked
            /\ docs' = docs]_vars

\* A flag or delete of an existing message that declares moderator with a token that
\* differs from the configured secret in case only was answered 403.
C9_Witness ==
    /\ mreq.op \in {"flag_chat_message", "delete_chat_message"}
    /\ mreq.message_id = Oid(2)
    /\ Found("chatmessage", Oid(2)) # {}
    /\ mreq.x_role = Moderator
    /\ ADMIN_TOKEN = Secret
    /\ mreq.x_admin_token = <<"S", "3">>
    /\ mresp.status = 403

\* C10: get_role resolves to moderator or admin only with a token equal to a
\* non-empty configured secret; a declared moderator/admin without it resolves to
\* viewer; viewer and member resolve to themselves whatever their case; an absent or
\* unrecognized role resolves to viewer.
C10_GetRole ==
    mreq.op # "none" =>
        /\ mresp.role \in {Moderator, Admin} => TokenValid(mreq)
        /\ (ClaimsElevated(mreq) /\ ~TokenValid(mreq)) => mresp.role = Viewer
        /\ (mreq.x_role # None /\ Lower(mreq.x_role) \in {Viewer, Member})
             => mresp.role = Lower(mreq.x_role)
        /\ (mreq.x_role \in {None, EmptyStr}
              \/ Strip(Lower(mreq.x_role)) \notin {Viewer, Member, Moderator, Admin})
             => mresp.role = Viewer

\* A request declared " Admin " with the configured secret as its token and was
\* resolved to admin.
C10_Witness ==
    /\ mreq.op # "none"
    /\ mreq.x_role = <<" ", "A", "d", "m", "i", "n", " ">>
    /\ ADMIN_TOKEN = Secret
    /\ mreq.x_admin_token = Secret
    /\ mresp.role = Admin

\* The subscriber set of registry r under key k in the state a step leads to.
MembersAfter(r, k) ==
    IF r = "global" THEN global_channels'
    ELSE GetOrEmpty(IF r = "chat" THEN chat_channels' ELSE room_channels', k)

\* C11: the join presence message of connect_chat/connect_room for connection c
\* carries the size of the channel's subscriber set right after c was added, which
\* counts c and is at least 1, and c is in the snapshot the message goes to.
C11_JoinCountAfterAdd ==
    [][\A c \in Conns :
         (pc[c] = "accept" /\ pc'[c] \notin {"accept", "failed"})
         => LET r == chan'[c].reg
                k == chan'[c].key
            IN /\ MembersAfter(r, k) = Members(r, k) \cup {c}
               /\ bc'[c].reg = r
               /\ bc'[c].key = k
               /\ bc'[c].msg = Presence("join", Cardinality(MembersAfter(r, k)))
               /\ bc'[c].msg.count >= 1
               /\ bc'[c].snap = MembersAfter(r, k)
               /\ c \in bc'[c].snap]_vars

\* A second connection's join presence with count 2 is being delivered while the
\* first connection is inside a broadcast of its own.
C11_Witness ==
    \E c \in Conns : \E d \in Conns \ {c} :
        /\ pc[c] = "send"
        /\ bc[c].msg = Presence("join", 2)
        /\ pc[d] = "send"

\* C12: the leave presence message of disconnect_chat/disconnect_room for
\* connection c carries the number of members that remain after c's removal, its
\* snapshot is exactly those members and never holds c, and at the return of the
\* broadcast exactly the snapshot was attempted.
C12_LeaveCountAfterRemoval ==
    [][\A c \in Conns :
         /\ ndisc'[c] # ndisc[c]
              => LET r == chan[c].reg
                     k == chan[c].key
                 IN /\ MembersAfter(r, k) = Members(r, k) \ {c}
                    /\ bc'[c].reg = r
                    /\ bc'[c].key = k
                    /\ bc'[c].msg = Presence("leave", Cardinality(MembersAfter(r, k)))
                    /\ bc'[c].snap = MembersAfter(r, k)
                    /\ c \notin bc'[c].snap
         /\ (pc'[c] = "bret" /\ bc'[c].msg.type = "presence" /\ bc'[c].msg.event = "leave")
              => /\ bc'[c].tried = bc'[c].snap
                 /\ c \notin bc'[c].tried]_vars

\* Of two members of a room, one has disconnected and its leave presence with count
\* 1 was attempted to the other.
C12_Witness ==
    \E c \in Conns : \E d \in Conns \ {c} :
        /\ pc[c] = "bret"
        /\ bc[c].reg = "room"
        /\ bc[c].msg = Presence("leave", 1)
        /\ bc[c].tried = {d}

\* C13: each send_text of a broadcast goes to one connection of the snapshot that
\* was not attempted yet and takes it out of the rest, whether it fails or not; the
\* broadcast is at its return exactly when nothing is left, and then its caller
\* goes on where a normal return leads: the receive loop, the end of a disconnect,
\* or the success response of the HTTP handler.
C13_OneAttemptEachAndReturn ==
    [][\A t \in Tasks :
         /\ (pc[t] = "send" /\ bc'[t] # bc[t])
              => /\ \E ws \in bc[t].todo \ bc[t].tried :
                       /\ bc'[t].tried = bc[t].tried \cup {ws}
                       /\ bc'[t].todo = bc[t].todo \ {ws}
                 /\ bc'[t].snap = bc[t].snap
                 /\ bc'[t].todo \cup bc'[t].tried = bc[t].snap
                 /\ bc'[t].dead \subseteq bc'[t].tried
                 /\ pc'[t] = IF bc'[t].todo = {} THEN "bret" ELSE "send"
         /\ (pc[t] = "bret" /\ pc'[t] # "bret")
              => /\ pc'[t] = bc[t].ret
                 /\ pc'[t] \in {"recv", "closed", "respond"}
                 /\ t \in Https => resp'[t].status \in {200, 201}]_vars

\* The broadcast of an HTTP handler is at its return after it attempted both
\* connections of its snapshot and a send failed.
C13_Witness ==
    \E h \in Https :
        /\ pc[h] = "bret"
        /\ Cardinality(bc[h].snap) = 2
        /\ bc[h].tried = bc[h].snap
        /\ bc[h].dead # {}

\* C14: a typing frame received on a connection of channel k starts one broadcast
\* of a typing message to exactly the current subscribers of k in the connection's
\* registry, the sender among them when it is still a member; the message carries
\* the frame's author, or "Anon" when the frame has none or an empty one; the store
\* is not written.
C14_TypingRebroadcast ==
    [][\A c \in Conns :
         (pc[c] = "body" /\ running = c /\ FrameKind(frame) = "typing" /\ pc'[c] # "body")
         => /\ bc'[c].reg = chan[c].reg
            /\ bc'[c].key = chan[c].key
            /\ bc'[c].snap = Members(chan[c].reg, chan[c].key)
            /\ bc'[c].todo = bc'[c].snap
            /\ bc'[c].msg.type = "typing"
            /\ bc'[c].msg.author = IF frame.author \in {None, EmptyStr} THEN Anon
                                   ELSE frame.author
            /\ docs' = docs
            /\ nextId' = nextId]_vars

\* C14 as stated: the same, with the typing message carrying the author of every
\* frame that has an author entry.
C14_AuthorIsFrameAuthor ==
    [][\A c \in Conns :
         (pc[c] = "body" /\ running = c /\ FrameKind(frame) = "typing" /\ pc'[c] # "body")
         => /\ bc'[c].reg = chan[c].reg
            /\ bc'[c].key = chan[c].key
            /\ bc'[c].snap = Members(chan[c].reg, chan[c].key)
            /\ bc'[c].todo = bc'[c].snap
            /\ bc'[c].msg.type = "typing"
            /\ frame.author # None => bc'[c].msg.author = frame.author
            /\ docs' = docs
            /\ nextId' = nextId]_vars

\* A typing broadcast with the frame's author goes to its sender, while a
\* connection subscribed to another channel is left out.
C14_Witness ==
    \E c \in Conns :
        /\ pc[c] = "send"
        /\ bc[c].msg = Typing(Ann)
        /\ c \in bc[c].snap
        /\ bc[c].snap = Members(chan[c].reg, chan[c].key)
        /\ \E d \in Conns \ {c} :
             /\ chan[d] # chan[c]
             /\ d \in Members(chan[d].reg, chan[d].key)
             /\ d \notin bc[c].snap

\* C15: a frame that is not valid JSON, is not a JSON object, or has a type other
\* than typing or ping starts no broadcast and no send, changes no registry, and
\* leaves the handler at receive_text with the connection's membership unchanged.
C15_IgnoredFrame ==
    [][\A c \in Conns :
         (pc[c] = "body" /\ running = c /\ pc'[c] # "body"
            /\ (frame.json # "object" \/ frame.type \notin {"typing", "ping"}))
         => /\ pc'[c] = "recv"
            /\ bc' = bc
            /\ owed' = owed
            /\ hubvars' = hubvars
            /\ peer' = peer
            /\ chan' = chan
            /\ ndisc' = ndisc]_vars

\* A connection that shares its channel with another subscriber has received a
\* frame that is not valid JSON, and its loop body is about to run.
C15_Witness ==
    \E c \in Conns : \E d \in Conns \ {c} :
        /\ pc[c] = "body"
        /\ running = c
        /\ frame.json = "invalid"
        /\ {c, d} \subseteq Members(chan[c].reg, chan[c].key)

\* C16: a successful post_room_message to room r broadcasts one message frame to
\* exactly the connections subscribed to room r at the snapshot, all of which and no
\* other are attempted by its return; the item carries the id returned to the
\* caller and the room_id of the path, and the stored document does as well.
C16_RoomMessageFanOut ==
    [][\A h \in Https :
         /\ (pc[h] = "idle" /\ req'[h].op = "post_room_message" /\ resp'[h].status = 201)
              => /\ bc'[h].reg = "room"
                 /\ bc'[h].key = req'[h].room_id
                 /\ bc'[h].snap = GetOrEmpty(room_channels, req'[h].room_id)
                 /\ bc'[h].todo = bc'[h].snap
                 /\ bc'[h].msg.type = "message"
                 /\ bc'[h].msg.item._id = resp'[h].id
                 /\ bc'[h].msg.item.room_id = req'[h].room_id
                 /\ \E d \in docs' \ docs :
                      /\ d.coll = "roommessage"
                      /\ d._id = resp'[h].id
                      /\ d.room_id = req'[h].room_id
         /\ (pc'[h] = "bret" /\ req'[h].op = "post_room_message")
              => bc'[h].tried = bc'[h].snap]_vars

\* post_room_message, with a body that declares another room_id than the path, has
\* attempted its message to the one subscriber of the room while another connection
\* is subscribed to another channel.
C16_Witness ==
    \E h \in Https : \E c \in Conns : \E d \in Conns \ {c} :
        /\ pc[h] = "bret"
        /\ req[h].op = "post_room_message"
        /\ req[h].body_room_id # req[h].room_id
        /\ bc[h].tried = {c}
        /\ bc[h].dead = {}
        /\ chan[d] # chan[c]
        /\ d \in Members(chan[d].reg, chan[d].key)

\* C17: whenever an HTTP handler is inside the broadcast of a message frame, the
\* document with the frame's id is in the store; when the insert of create_chat or
\* post_room_message fails because storage is unavailable, the handler answers 500
\* without entering a broadcast, and the registries and the store are unchanged.
C17_PersistBeforeBroadcast ==
    [][\A h \in Https :
         /\ bc'[h].msg.type = "message"
              => \E d \in docs' :
                   /\ d._id = bc'[h].msg.item._id
                   /\ d.coll = IF bc'[h].reg = "chat" THEN "chatmessage" ELSE "roommessage"
         /\ (pc[h] = "idle" /\ req'[h].op \in {"create_chat", "post_room_message"}
               /\ resp'[h].detail = DbUnavailable)
              => /\ resp'[h].status = 500
                 /\ pc'[h] = "respond"
                 /\ bc'[h] = IdleBc
                 /\ hubvars' = hubvars
                 /\ docs' = docs]_vars

\* create_chat answered 500 for a category whose channel has a subscriber.
C17_Witness ==
    \E h \in Https :
        /\ pc[h] = "respond"
        /\ req[h].op = "create_chat"
        /\ resp[h].status = 500
        /\ Members("chat", OrDefault(req[h].category, General)) # {}

\* C18: every snapshot a broadcast uses was read while the broadcasting task held
\* the registry lock.
C18_SnapshotUnderLock ==
    \A t \in Tasks : bc[t].reg # "none" => bc[t].holder = t

\* C19: the snapshot of a broadcast is the channel's subscriber set at the instant
\* the broadcast starts and does not change while the broadcast runs; only
\* connections of the snapshot are attempted, and at the return all of them were.
C19_OnlySnapshotAttempted ==
    [][\A t \in Tasks :
         /\ (bc[t] = IdleBc /\ bc'[t] # IdleBc)
              => /\ bc'[t].snap = MembersAfter(bc'[t].reg, bc'[t].key)
                 /\ bc'[t].tried = {}
         /\ (bc[t] # IdleBc /\ bc'[t] # IdleBc)
              => /\ bc'[t].snap = bc[t].snap
                 /\ bc'[t].tried \subseteq bc[t].snap
         /\ pc'[t] = "bret" => bc'[t].tried = bc'[t].snap]_vars

\* A broadcast is at its return while the channel has a subscriber that joined after
\* the snapshot and was not attempted.
C19_Witness ==
    \E t \in Tasks : \E d \in Conns :
        /\ pc[t] = "bret"
        /\ bc[t].snap # {}
        /\ d \in Members(bc[t].reg, bc[t].key)
        /\ d \notin bc[t].snap
        /\ d \notin bc[t].tried

Suspended == {"accept", "send", "recv", "pong"}

\* C21: a task suspended in accept, send or receive does not hold the hub lock, and
\* the lock is free whenever the event loop is idle; the lock is free before every
\* step that mutates a registry; a broadcast leaves the registries alone while its
\* pass runs and removes all its dead connections in the one step that ends the pass.
C21_NoLockAcrossSuspension ==
    /\ [](/\ \A t \in Tasks : pc[t] \in Suspended => lock # t
          /\ running = 0 => lock = 0)
    /\ [][/\ <<chat_channels, room_channels, global_channels>>'
                # <<chat_channels, room_channels, global_channels>> => lock = 0
          /\ \A t \in Tasks :
               /\ (pc[t] = "send" /\ pc'[t] = "send" /\ bc'[t] # bc[t])
                    => /\ <<chat_channels, room_channels, global_channels>>'
                            = <<chat_channels, room_channels, global_channels>>
                       /\ evicted' = evicted
               /\ (pc[t] = "send" /\ pc'[t] = "bret")
                    => /\ evicted' = evicted \cup bc'[t].dead
                       /\ bc'[t].dead \cap Members(bc[t].reg, bc[t].key)
                            \cap MembersAfter(bc[t].reg, bc[t].key) = {}]_vars

\* A broadcast is suspended in a send after a failed send, with a dead connection
\* still subscribed, while another task is suspended in a network operation.
C21_Witness ==
    \E t \in Tasks : \E d \in Tasks \ {t} :
        /\ pc[t] = "send"
        /\ bc[t].dead \cap Members(bc[t].reg, bc[t].key) # {}
        /\ pc[d] \in Suspended
        /\ lock = 0

\* C22: a connection enters a subscriber set only in its connect step, once, and
\* only the set of its own channel; it leaves that set only in a step that
\* disconnects or evicts it; once disconnected or evicted it is in no subscriber set.
C22_SubscribedOnceUnsubscribedOnce ==
    [][\A c \in Conns : \A r \in {"chat", "room"} : \A k \in ChannelKeys :
         /\ (c \notin Members(r, k) /\ c \in MembersAfter(r, k))
              => /\ pc[c] = "accept"
                 /\ c \notin connected
                 /\ c \in connected'
                 /\ chan'[c] = [reg |-> r, key |-> k]
         /\ (c \in Members(r, k) /\ c \notin MembersAfter(r, k))
              => /\ chan[c] = [reg |-> r, key |-> k]
                 /\ c \in (disconnected' \ disconnected) \cup (evicted' \ evicted)
         /\ c \in MembersAfter(r, k) => chan'[c] = [reg |-> r, key |-> k]
         /\ c \in disconnected \cup evicted => c \notin MembersAfter(r, k)
         /\ c \in connected => c \in connected']_vars

\* A connection was subscribed, evicted after a failed send and then disconnected,
\* and its handler has ended, while another connection is subscribed to the channel
\* it was in.
C22_Witness ==
    \E c \in connected \cap evicted \cap disconnected : \E d \in Conns \ {c} :
        /\ pc[c] = "closed"
        /\ \E r \in {"chat", "room"} : \E k \in ChannelKeys : d \in Members(r, k)
        /\ \A r \in {"chat", "room"} : \A k \in ChannelKeys : c \notin Members(r, k)

\* disconnect_chat/disconnect_room has removed connection c and has started the
\* leave presence broadcast of its channel, to a snapshot taken after the removal.
LeaveStarted(c) ==
    /\ c \in disconnected
    /\ bc[c].ret = "closed"
    /\ bc[c].msg.type = "presence"
    /\ bc[c].msg.event = "leave"
    /\ bc[c].msg.count = Cardinality(bc[c].snap)
    /\ c \notin bc[c].snap
    /\ c \notin Members(bc[c].reg, bc[c].key)

\* C23: under a fair event loop, a connection whose peer has closed and whose handler
\* waits in receive_text is eventually removed from its channel's subscriber set with
\* the leave presence broadcast of that channel started after the removal, unless a
\* ping frame sent before the close is received first (the handler then fails in the
\* pong send and not in receive_text).
C23_ClosedPeerLeaves ==
    /\ \A c \in Conns :
         (pc[c] = "recv" /\ peer[c] = "closed") ~> (LeaveStarted(c) \/ pc[c] = "pong")
    /\ [][\A c \in Conns :
            (pc[c] = "recv" /\ peer[c] = "closed" /\ pc'[c] \notin {"recv", "body"})
                => LeaveStarted(c)']_vars

\* The receive of a closed connection has raised: the connection is removed and its
\* leave presence is being sent to the subscriber that remains.
C23_Witness ==
    \E c \in Conns :
        /\ peer[c] = "closed"
        /\ ndisc[c] = 1
        /\ c \notin evicted
        /\ LeaveStarted(c)
        /\ pc[c] = "send"
        /\ bc[c].snap # {}

\* C24: the global subscriber set is empty in every state, and a broadcast_global
\* pass, the only one that carries a room_created message, has an empty snapshot
\* and has attempted no send.
C24_GlobalChannelEmpty ==
    /\ global_channels = {}
    /\ \A t \in Tasks :
         (bc[t].reg = "global" \/ bc[t].msg.type = "room_created")
            => /\ bc[t].reg = "global"
               /\ bc[t].msg.type = "room_created"
               /\ bc[t].snap = {}
               /\ bc[t].todo = {}
               /\ bc[t].tried = {}
               /\ pc[t] = "bret"

\* create_room has stored a room and is at the return of broadcast_global while a
\* connection is subscribed to a chat channel and another to a room channel.
C24_Witness ==
    \E h \in Https :
        /\ pc[h] = "bret"
        /\ req[h].op = "create_room"
        /\ resp[h].status = 201
        /\ bc[h].msg = [type |-> "room_created", id |-> resp[h].id]
        /\ \E k \in DOMAIN chat_channels : chat_channels[k] # {}
        /\ \E k \in DOMAIN room_channels : room_channels[k] # {}

\* C25: the step of a broadcast that evicts dead connections starts no broadcast and
\* leaves the message of its pass as it was; a leave presence broadcast starts only
\* in the disconnect step of a handler that was in its receive loop; and the
\* disconnect of an evicted connection changes no registry and starts one leave
\* presence broadcast, to the channel's subscribers, with their number as count.
C25_EvictionSilentLeaveOnDisconnect ==
    [][/\ \A t \in Tasks : (pc[t] = "send" /\ pc'[t] = "bret" /\ bc'[t].dead # {})
            => /\ bc'[t].msg = bc[t].msg
               /\ bc'[t].snap = bc[t].snap
               /\ \A u \in Tasks \ {t} : bc'[u] = bc[u]
               /\ ndisc' = ndisc
       /\ \A u \in Tasks :
            (bc'[u] # bc[u] /\ bc'[u].msg.type = "presence" /\ bc'[u].msg.event = "leave"
               /\ bc'[u].tried = {})
            => /\ u \in Conns
               /\ pc[u] \in {"recv", "pong"}
               /\ bc[u] = IdleBc
               /\ ndisc'[u] = ndisc[u] + 1
       /\ \A c \in Conns : (c \in evicted /\ ndisc'[c] # ndisc[c])
            => /\ <<chat_channels, room_channels, global_channels>>'
                    = <<chat_channels, room_channels, global_channels>>
               /\ ndisc'[c] = ndisc[c] + 1
               /\ bc'[c].msg = [type |-> "presence", event |-> "leave",
                                count |-> Cardinality(Members(chan[c].reg, chan[c].key))]
               /\ bc'[c].snap = Members(chan[c].reg, chan[c].key)
               /\ \A u \in Tasks \ {c} : bc'[u] = bc[u]]_vars

\* A connection evicted after a failed send has been disconnected by its handler,
\* and the leave presence is being sent to the subscriber that remains in the channel.
C25_Witness ==
    \E c \in evicted \cap disconnected :
        /\ pc[c] = "send"
        /\ bc[c].msg = [type |-> "presence", event |-> "leave", count |-> 1]
        /\ bc[c].snap # {}
        /\ bc[c].snap = Members(bc[c].reg, bc[c].key)

\* The collection a moderation request addresses.
CollOf(r) ==
    IF r.op \in {"flag_chat_message", "delete_chat_message"} THEN "chatmessage" ELSE "roommessage"

\* C26: a flag or delete request whose resolved role is neither moderator nor admin
\* is answered 403 with the storage helper not invoked and the store unchanged,
\* whatever its message id (an existing message, a missing one, a malformed id); the
\* answers 404, 500 and 200 are given only to requests whose resolved role is
\* moderator or admin.
C26_DeniedBeforeLookup ==
    [][(mreq.op = "none" /\ mreq'.op # "none")
         => /\ mresp'.role = get_role(mreq'.x_role, mreq'.x_admin_token)
            /\ mresp'.role \notin {Moderator, Admin}
                 => /\ mresp' = ModResp(403, mresp'.role, FALSE)
                    /\ docs' = docs
            /\ mresp'.status # 403
                 => /\ mresp'.role \in {Moderator, Admin}
                    /\ mresp'.invoked
            /\ mresp'.status = 404
                 => /\ Found(CollOf(mreq'), mreq'.message_id) = {}
                    /\ IsObjectId(mreq'.message_id)]_vars

\* A member without elevated role asked to delete a chat message that does not
\* exist, with the store available or not, and was answered 403.
C26_Witness ==
    /\ mreq.op = "delete_chat_message"
    /\ mreq.message_id = MissingId
    /\ Found("chatmessage", mreq.message_id) = {}
    /\ mresp.role = Member
    /\ mresp.status = 403
    /\ ~mresp.invoked

=============================================================================
